---- MODULE Spec2Model ----
(***************************************************************************)
(* Model of src/app.py, the Nifty 50 analytics dashboard: the metrics      *)
(* engine (get_metrics), the cash-flow red flags (get_cashflow_flags), the *)
(* master-table loop, the watchlist handler and the portfolio advisory     *)
(* (build_portfolio and the "Generate Portfolio" handler).                 *)
(*                                                                         *)
(* Each part of the script is checked under a specification of its own     *)
(* (SpecPortfolio, SpecFlags, SpecMetrics, SpecTable, SpecWatch); the      *)
(* variables of the other parts stay at their idle values.                 *)
(*                                                                         *)
(* A nullable value (None / NaN of a DataFrame cell) is the empty sequence *)
(* Null, a present value v is <<v>>.  Prices and amounts are integers, a    *)
(* quotient is kept exact (floor of the real quotient, or a numerator and  *)
(* a denominator): binary floating-point rounding is not modelled.         *)
(***************************************************************************)
EXTENDS Integers, Sequences, FiniteSets, TLC

VARIABLES
    df,         \* portfolio: the screener table handed to build_portfolio
    capital,    \* portfolio: st.number_input "Capital"
    risk,       \* portfolio: st.selectbox "Risk Profile"
    pf,         \* portfolio: index labels of the rows build_portfolio returned
    result,     \* portfolio: outcome of the "Generate Portfolio" handler
    statements, \* cash flow: what t.cashflow / t.financials hold for the symbol
    cf_flags,   \* cash flow: the list get_cashflow_flags returned (<<>>: not yet called)
    source,     \* metrics: what yfinance yields for the symbol (t.info, t.history)
    metrics,    \* metrics: the tuple get_metrics returned (NoMetrics: not yet called)
    filtered,   \* master table: the filtered universe, a sequence of equities
    feed,       \* master table: per symbol, what yfinance yields for it
    rows,       \* master table: the list "rows" of the loop
    table_pc,   \* master table: "loop", "done" (df built) or "aborted" (exception)
    stock,      \* watchlist: the company chosen in "Select Stock"
    watchlist,  \* watchlist: st.session_state.watchlist
    clicked     \* watchlist: history, the companies "Add to Watchlist" was clicked for

varsPortfolio == <<df, capital, risk, pf, result>>

varsFlags == <<statements, cf_flags>>

varsMetrics == <<source, metrics>>

varsTable == <<filtered, feed, rows, table_pc>>

varsWatch == <<stock, watchlist, clicked>>

vars == <<varsPortfolio, varsFlags, varsMetrics, varsTable, varsWatch>>

----------------------------------------------------------------------------
(* Nullable cells *)

Null == <<>>

Some(v) == <<v>>

IsNull(x) == x = Null

Val(x) == x[1]

----------------------------------------------------------------------------
(* Bounds of the model *)

\* largest number of rows of a screener table
MaxRows == 6

----------------------------------------------------------------------------
(* PORTFOLIO ADVISORY: src/app.py lines 193-217 *)

\* d.head(5)
HeadRows == 5

\* min_value of st.number_input("Capital")
MinCapital == 10000

Risks == {"Low", "Moderate", "High"}

\* The capitals entered: the minimum and one that no small price divides.
Capitals == {MinCapital, MinCapital + 7}

\* The companies a screener table can list, each with its metrics.  Rows 1
\* and 2 tie on ROE with different 1Y returns, as do 3 and 6, and 4 and 7;
\* rows 2 and 6 have no 3Y CAGR, row 3 has a price of 0, row 4 a negative
\* price, and row 8 has nulls in fields that dropna looks at.
Listing ==
    << [Company |-> 1, Price |-> Some(2),  PE |-> Some(1), ROE |-> Some(2), R1Y |-> Some(1), C3Y |-> Some(2), Vol |-> Some(1)],
       [Company |-> 2, Price |-> Some(3),  PE |-> Some(1), ROE |-> Some(2), R1Y |-> Some(2), C3Y |-> Null,    Vol |-> Some(3)],
       [Company |-> 3, Price |-> Some(0),  PE |-> Some(1), ROE |-> Some(1), R1Y |-> Some(1), C3Y |-> Some(1), Vol |-> Some(2)],
       [Company |-> 4, Price |-> Some(-3), PE |-> Some(1), ROE |-> Some(3), R1Y |-> Some(1), C3Y |-> Some(3), Vol |-> Some(2)],
       [Company |-> 5, Price |-> Some(5),  PE |-> Some(2), ROE |-> Some(4), R1Y |-> Null,    C3Y |-> Some(3), Vol |-> Some(4)],
       [Company |-> 6, Price |-> Some(7),  PE |-> Some(1), ROE |-> Some(1), R1Y |-> Some(2), C3Y |-> Null,    Vol |-> Some(5)],
       [Company |-> 7, Price |-> Some(4),  PE |-> Some(3), ROE |-> Some(3), R1Y |-> Some(2), C3Y |-> Some(1), Vol |-> Some(3)],
       [Company |-> 8, Price |-> Null,     PE |-> Some(1), ROE |-> Null,    R1Y |-> Some(2), C3Y |-> Some(3), Vol |-> Null] >>

\* The sequences of at most n distinct elements of S
DistinctSeqs(S, n) ==
    UNION { { s \in [1..m -> S] : \A i, j \in 1..m : s[i] = s[j] => i = j } : m \in 0..n }

\* A screener table: at most MaxRows of the companies, in any order
Tables ==
    { [i \in 1..Len(sel) |-> Listing[sel[i]]] : sel \in DistinctSeqs(1..Len(Listing), MaxRows) }

\* data.dropna(subset=["Price", "ROE", "Volatility %", "P/E"]): the index
\* labels of the rows kept, in table order.
DropNa(data) ==
    SelectSeq([i \in 1..Len(data) |-> i],
              LAMBDA i : /\ ~IsNull(data[i].Price)
                         /\ ~IsNull(data[i].ROE)
                         /\ ~IsNull(data[i].Vol)
                         /\ ~IsNull(data[i].PE))

Range(s) == { s[i] : i \in 1..Len(s) }

\* Twice the median of the values k[i], i in the non-empty set S: the middle
\* value counted twice for an odd count, the sum of the two middle values
\* for an even one (pandas averages them).
Median2(S, k) ==
    LET n == Cardinality(S)
        below(x) == Cardinality({ y \in S : k[y] < x })
        upto(x)  == Cardinality({ y \in S : k[y] <= x })
        \* the value at rank r (1-based) of the sorted values
        at(r) == CHOOSE x \in { k[y] : y \in S } : below(x) < r /\ r <= upto(x)
    IN  IF n % 2 = 1 THEN 2 * at((n + 1) \div 2)
        ELSE at(n \div 2) + at(n \div 2 + 1)

\* d[d["Volatility %"] < d["Volatility %"].median()]: a boolean mask keeps
\* the table order; the median of no rows is NaN and every comparison fails.
BelowMedianVol(data, d) ==
    LET k == [i \in Range(d) |-> Val(data[i].Vol)]
    IN  SelectSeq(d, LAMBDA i : 2 * k[i] < Median2(Range(d), k))

\* Every order of the labels S by descending key.  sort_values runs with its
\* default kind, quicksort, which is not stable: rows with equal keys come out
\* in any order.
RECURSIVE SortDescending(_, _)
SortDescending(S, k) ==
    IF S = {} THEN { <<>> }
    ELSE LET top == { x \in S : \A y \in S : k[y] <= k[x] }
         IN  UNION { { <<x>> \o s : s \in SortDescending(S \ {x}, k) } : x \in top }

\* d.sort_values(col, ascending=False) with na_position "last": the rows with
\* a value by descending value, then the rows without one in table order.
SortValuesDesc(data, d, col) ==
    LET have == { i \in Range(d) : ~IsNull(data[i][col]) }
        nans == SelectSeq(d, LAMBDA i : IsNull(data[i][col]))
        k    == [i \in have |-> Val(data[i][col])]
    IN  { s \o nans : s \in SortDescending(have, k) }

\* d.head(n)
Head5(d) == SubSeq(d, 1, IF Len(d) < HeadRows THEN Len(d) ELSE HeadRows)

\* build_portfolio with the Moderate branch leaving the rows unsorted
build_portfolio_unsorted(data, rsk) ==
    LET d == DropNa(data)
    IN  IF rsk = "Low" THEN { Head5(BelowMedianVol(data, d)) }
        ELSE IF rsk = "Moderate"
             THEN { Head5(d) }
             ELSE { Head5(s) : s \in SortValuesDesc(data, d, "C3Y") }

\* build_portfolio(data, risk): the set of frames it can return, each the
\* sequence of the index labels of its rows.
build_portfolio(data, rsk) ==
    LET d == DropNa(data)
    IN  IF rsk = "Low" THEN { Head5(BelowMedianVol(data, d)) }
        ELSE IF rsk = "Moderate"
             THEN { Head5(s) : s \in SortValuesDesc(data, d, "ROE") }
             ELSE { Head5(s) : s \in SortValuesDesc(data, d, "C3Y") }

\* floor(a / b) for b # 0
FloorDiv(a, b) == IF b > 0 THEN a \div b ELSE (0 - a) \div (0 - b)

RECURSIVE SumSeq(_)
SumSeq(s) == IF s = <<>> THEN 0 ELSE Head(s) + SumSeq(Tail(s))

NoResult == [status |-> "none", at |-> "", n |-> 0, entries |-> <<>>,
             total_invested |-> 0, cash_left |-> 0]

Raised(exc, where, cnt) ==
    [status |-> exc, at |-> where, n |-> cnt, entries |-> <<>>,
     total_invested |-> 0, cash_left |-> 0]

\* The body of the "Generate Portfolio" handler after build_portfolio:
\* allocation = capital / len(pf); shares = floor(allocation / price) per row;
\* invested = shares * price; the total and the cash left.  allocation / price
\* is capital / (len(pf) * price).
Sizing(data, d, cap) ==
    LET n == Len(d)
    IN  IF n = 0 THEN Raised("ZeroDivisionError", "capital / len(pf)", 0)
        ELSE IF \E j \in 1..n : Val(data[d[j]].Price) = 0
             THEN Raised("ZeroDivisionError", "allocation / x", n)
             ELSE LET entry(j) ==
                          LET price  == Val(data[d[j]].Price)
                              shares == FloorDiv(cap, n * price)
                          IN  [Company |-> d[j], Price |-> price,
                               Shares |-> shares, Invested |-> shares * price]
                      entries == [j \in 1..n |-> entry(j)]
                      total   == SumSeq([j \in 1..n |-> entries[j].Invested])
                  IN  [status |-> "ok", at |-> "", n |-> n, entries |-> entries,
                       total_invested |-> total, cash_left |-> cap - total]

----------------------------------------------------------------------------
(* CASH FLOW RED FLAGS: src/app.py lines 78-109 *)

\* Largest absolute value of an operating cash flow or a net income.
MaxAmount == 10

\* An amount of a statement: a number, or NaN (Null).
Amounts == { Null } \cup { Some(v) : v \in (0 - MaxAmount)..MaxAmount }

\* What yfinance holds for the symbol: no statement (None), statements
\* without the row looked up (.loc raises KeyError), or both values.
NoStatements == [kind |-> "idle", cfo |-> Null, net |-> Null]

StatementInputs ==
    { [kind |-> "none", cfo |-> Null, net |-> Null],
      [kind |-> "keyerror", cfo |-> Null, net |-> Null] }
    \cup { [kind |-> "resolved", cfo |-> c, net |-> n] : c \in Amounts, n \in Amounts }

FlagUnavailable == "Cash-flow data unavailable"

FlagLower == "Operating cash flow is lower than net profit"

FlagWeak == "Weak cash conversion (CFO / Net Profit < 0.8)"

FlagNegative == "Negative operating cash flow despite positive profit"

FlagSupport == "Cash flows broadly support reported profits"

\* a < b on floats: false when either is NaN
FloatLt(a, b) == ~IsNull(a) /\ ~IsNull(b) /\ Val(a) < Val(b)

\* a != 0 on floats: true for NaN
FloatNonZero(a) == IsNull(a) \/ Val(a) # 0

\* cfo / net_profit < 0.8 for net_profit != 0: NaN compares false; the
\* quotient is below 4/5 when 5 cfo < 4 net (net > 0) or 5 cfo > 4 net (net < 0).
CashConversionWeak(cfo, net) ==
    /\ ~IsNull(cfo)
    /\ ~IsNull(net)
    /\ IF Val(net) > 0 THEN 5 * Val(cfo) < 4 * Val(net)
                       ELSE 5 * Val(cfo) > 4 * Val(net)

\* get_cashflow_flags with "cfo <= net_profit" for its first flag
get_cashflow_flags_le(st) ==
    IF st.kind = "none" THEN << FlagUnavailable >>
    ELSE IF st.kind = "keyerror" THEN << FlagUnavailable >>
    ELSE LET cfo == st.cfo
             net_profit == st.net
             f0 == << >>
             f1 == IF FloatLt(cfo, net_profit) \/ (~IsNull(cfo) /\ cfo = net_profit)
                   THEN Append(f0, FlagLower) ELSE f0
             f2 == IF FloatNonZero(net_profit) /\ CashConversionWeak(cfo, net_profit)
                   THEN Append(f1, FlagWeak) ELSE f1
             f3 == IF FloatLt(Some(0), net_profit) /\ FloatLt(cfo, Some(0))
                   THEN Append(f2, FlagNegative) ELSE f2
         IN  IF f3 = << >> THEN Append(f3, FlagSupport) ELSE f3

\* get_cashflow_flags(symbol), given what the symbol's statements hold
get_cashflow_flags(st) ==
    IF st.kind = "none" THEN << FlagUnavailable >>
    ELSE IF st.kind = "keyerror" THEN << FlagUnavailable >>
    ELSE LET cfo == st.cfo
             net_profit == st.net
             f0 == << >>
             f1 == IF FloatLt(cfo, net_profit) THEN Append(f0, FlagLower) ELSE f0
             f2 == IF FloatNonZero(net_profit) /\ CashConversionWeak(cfo, net_profit)
                   THEN Append(f1, FlagWeak) ELSE f1
             f3 == IF FloatLt(Some(0), net_profit) /\ FloatLt(cfo, Some(0))
                   THEN Append(f2, FlagNegative) ELSE f2
         IN  IF f3 = << >> THEN Append(f3, FlagSupport) ELSE f3

----------------------------------------------------------------------------
(* METRICS ENGINE: src/app.py lines 51-73 *)

\* len(hist) > 252, .iloc[-252]
TradingYear == 252

\* len(hist) > 756
ThreeYears == 756

\* Histories of at most MaxShort closes, and of within Slack closes of each
\* threshold.
MaxShort == 3

Slack == 2

HistLens ==
    (0..MaxShort) \cup { TradingYear + d : d \in (0 - Slack)..Slack }
                  \cup { ThreeYears + d : d \in (0 - Slack)..Slack }

Closes == {1, 2}

\* A price history of n closes: b for the last k of them, a before.
StepHist(n, k, a, b) == [i \in 1..n |-> IF i <= n - k THEN a ELSE b]

Histories(lens) ==
    { StepHist(n, k, a, b) : n \in lens, k \in 0..(TradingYear + Slack + 1), a \in Closes, b \in Closes }

\* t.info: currentPrice, trailingPE, returnOnEquity, each present or not
Infos == [price : {Null, Some(2)}, pe : {Null, Some(1)}, roe : {Null, Some(3)}]

\* A symbol for which yfinance raises
Failing == [ok |-> FALSE, info |-> [price |-> Null, pe |-> Null, roe |-> Null], hist |-> << >>]

Sources(lens) ==
    { Failing } \cup { [ok |-> TRUE, info |-> i, hist |-> h] : i \in Infos, h \in Histories(lens) }

\* hist["Close"].iloc[i] for i < 0: the close at 0-based position len + i
ILocNeg(hist, i) == hist[Len(hist) + i + 1]

\* (last / base - 1) * 100, kept as a fraction
ReturnPct(last, base) == [num |-> (last - base) * 100, den |-> base]

\* ((last / first) ** (1/3) - 1) * 100, kept as the ratio under the root
CagrPct(last, first) == [root3_num |-> last, root3_den |-> first]

\* hist["Close"].pct_change().std() * sqrt(252) * 100: NaN (Null) with fewer
\* than two changes, else 0 when all daily changes are equal and 1, standing
\* for a positive number, when they are not.
Volatility(hist) ==
    IF Len(hist) < 3 THEN Null
    ELSE IF \A i \in 1..(Len(hist) - 1) : hist[i + 1] * hist[1] = hist[2] * hist[i]
         THEN Some(0) ELSE Some(1)

\* return None, None, None, None, None, None ("raised": whether the call
\* ended in an exception instead of returning)
AllNone == [raised |-> FALSE, price |-> Null, pe |-> Null, roe |-> Null,
            r1y |-> Null, cagr3 |-> Null, vol |-> Null]

NoMetrics == [called |-> FALSE] @@ AllNone

\* The body of the try block of get_metrics, for a symbol yfinance answers for
TryBody(src) ==
    LET hist == src.hist
        r1y == IF Len(hist) > 0 /\ Len(hist) > TradingYear
               THEN Some(ReturnPct(ILocNeg(hist, -1), ILocNeg(hist, 0 - TradingYear)))
               ELSE Null
        cagr3 == IF Len(hist) > 0 /\ Len(hist) > ThreeYears
                 THEN Some(CagrPct(ILocNeg(hist, -1), hist[1]))
                 ELSE Null
        vol == IF Len(hist) > 0 THEN Volatility(hist) ELSE Null
    IN  [raised |-> FALSE,
         price |-> src.info.price, pe |-> src.info.pe, roe |-> src.info.roe,
         r1y |-> r1y, cagr3 |-> cagr3, vol |-> vol]

\* get_metrics without its except clause: the exception leaves the call
get_metrics_uncaught(src) ==
    IF ~src.ok THEN [AllNone EXCEPT !.raised = TRUE] ELSE TryBody(src)

\* get_metrics(symbol), given what yfinance yields for the symbol: the whole
\* body is inside try / except Exception, which returns six None.
get_metrics(src) ==
    IF ~src.ok THEN AllNone ELSE TryBody(src)

----------------------------------------------------------------------------
(* BUILD MASTER TABLE: src/app.py lines 114-128 *)

\* Largest number of instruments of the filtered universe
MaxUniverse == 3

Equities ==
    { [Symbol |-> "TCS.NS", Company |-> "TCS", Sector |-> "IT"],
      [Symbol |-> "INFY.NS", Company |-> "Infosys", Sector |-> "IT"],
      [Symbol |-> "SBIN.NS", Company |-> "SBI", Sector |-> "Banking"] }

Symbols == { e.Symbol : e \in Equities }

Universes == UNION { [1..n -> Equities] : n \in 0..MaxUniverse }

\* What yfinance may yield for a symbol of the master table
TableSources ==
    { Failing,
      [ok |-> TRUE, info |-> [price |-> Some(2), pe |-> Some(1), roe |-> Some(3)], hist |-> <<1, 2, 1>>],
      [ok |-> TRUE, info |-> [price |-> Null, pe |-> Some(1), roe |-> Null], hist |-> << >>] }

\* The dict appended for the universe row r and the tuple m of get_metrics
MasterRow(r, m) ==
    [Company |-> r.Company, Sector |-> r.Sector, Price |-> m.price, PE |-> m.pe,
     ROE |-> m.roe, R1Y |-> m.r1y, C3Y |-> m.cagr3, Vol |-> m.vol]

----------------------------------------------------------------------------
(* WATCHLIST: src/app.py lines 25-26, 141, 151-153 *)

\* Number of companies of the screener
NumCompanies == 5

Companies == 1..NumCompanies

InSeq(x, s) == \E i \in 1..Len(s) : s[i] = x

\* the append without the membership test
AddStockUnchecked(wl, s) == Append(wl, s)

\* if stock not in st.session_state.watchlist: st.session_state.watchlist.append(stock)
AddStock(wl, s) == IF ~InSeq(s, wl) THEN Append(wl, s) ELSE wl

----------------------------------------------------------------------------
(* Idle values of the parts a specification does not exercise *)

IdlePortfolio ==
    /\ df = << >>
    /\ capital = MinCapital
    /\ risk = "Low"
    /\ pf = << >>
    /\ result = NoResult

IdleFlags ==
    /\ statements = NoStatements
    /\ cf_flags = << >>

IdleMetrics ==
    /\ source = Failing
    /\ metrics = NoMetrics

IdleTable ==
    /\ filtered = << >>
    /\ feed = [s \in Symbols |-> Failing]
    /\ rows = << >>
    /\ table_pc = "loop"

IdleWatch ==
    /\ stock = 1
    /\ watchlist = << >>
    /\ clicked = {}

----------------------------------------------------------------------------
(* Portfolio advisory *)

InitPortfolio ==
    /\ df \in Tables
    /\ capital \in Capitals
    /\ risk \in Risks
    /\ pf = << >>
    /\ result = NoResult
    /\ IdleFlags /\ IdleMetrics /\ IdleTable /\ IdleWatch

\* if st.button("Generate Portfolio"): pf = build_portfolio(df, risk); ...
GeneratePortfolio ==
    /\ result.status = "none"
    /\ \E d \in build_portfolio(df, risk) :
          /\ pf' = d
          /\ result' = Sizing(df, d, capital)
    /\ UNCHANGED <<df, capital, risk>>
    /\ UNCHANGED <<varsFlags, varsMetrics, varsTable, varsWatch>>

NextPortfolio == GeneratePortfolio

SpecPortfolio == InitPortfolio /\ [][NextPortfolio]_vars

----------------------------------------------------------------------------
(* Cash flow quality check *)

InitFlags ==
    /\ statements \in StatementInputs
    /\ cf_flags = << >>
    /\ IdlePortfolio /\ IdleMetrics /\ IdleTable /\ IdleWatch

\* cf_flags = get_cashflow_flags(symbol)
CashFlowCheck ==
    /\ cf_flags = << >>
    /\ cf_flags' = get_cashflow_flags(statements)
    /\ UNCHANGED statements
    /\ UNCHANGED <<varsPortfolio, varsMetrics, varsTable, varsWatch>>

NextFlags == CashFlowCheck

SpecFlags == InitFlags /\ [][NextFlags]_vars

----------------------------------------------------------------------------
(* Metrics engine *)

InitMetrics ==
    /\ source \in Sources(HistLens)
    /\ metrics = NoMetrics
    /\ IdlePortfolio /\ IdleFlags /\ IdleTable /\ IdleWatch

\* price, pe, roe, r1y, c3y, vol = get_metrics(symbol)
ComputeMetrics ==
    /\ ~metrics.called
    /\ metrics' = [called |-> TRUE] @@ get_metrics(source)
    /\ UNCHANGED source
    /\ UNCHANGED <<varsPortfolio, varsFlags, varsTable, varsWatch>>

NextMetrics == ComputeMetrics

SpecMetrics == InitMetrics /\ [][NextMetrics]_vars

----------------------------------------------------------------------------
(* Master table *)

InitTable ==
    /\ filtered \in Universes
    /\ feed \in [Symbols -> TableSources]
    /\ rows = << >>
    /\ table_pc = "loop"
    /\ IdlePortfolio /\ IdleFlags /\ IdleMetrics /\ IdleWatch

\* One iteration of "for _, r in filtered.iterrows()": the next universe row,
\* its metrics, the dict appended.  The loop has no handler of its own: an
\* exception out of get_metrics would end the script.
LoopIteration ==
    /\ table_pc = "loop"
    /\ Len(rows) < Len(filtered)
    /\ LET r == filtered[Len(rows) + 1]
           m == get_metrics(feed[r.Symbol])
       IN  IF m.raised
           THEN table_pc' = "aborted" /\ rows' = rows
           ELSE table_pc' = "loop" /\ rows' = Append(rows, MasterRow(r, m))
    /\ UNCHANGED <<filtered, feed>>
    /\ UNCHANGED <<varsPortfolio, varsFlags, varsMetrics, varsWatch>>

\* The loop is exhausted: df = pd.DataFrame(rows)
LoopExit ==
    /\ table_pc = "loop"
    /\ Len(rows) = Len(filtered)
    /\ table_pc' = "done"
    /\ UNCHANGED <<filtered, feed, rows>>
    /\ UNCHANGED <<varsPortfolio, varsFlags, varsMetrics, varsWatch>>

NextTable == LoopIteration \/ LoopExit

SpecTable == InitTable /\ [][NextTable]_vars

\* The script runs the loop to its end without waiting for anything.
SpecTableFair == SpecTable /\ WF_vars(NextTable)

----------------------------------------------------------------------------
(* Watchlist *)

InitWatch ==
    /\ stock \in Companies
    /\ watchlist = << >>
    /\ clicked = {}
    /\ IdlePortfolio /\ IdleFlags /\ IdleMetrics /\ IdleTable

\* stock = st.selectbox("Select Stock", df["Company"])
SelectStock ==
    /\ \E s \in Companies : stock' = s
    /\ UNCHANGED <<watchlist, clicked>>
    /\ UNCHANGED <<varsPortfolio, varsFlags, varsMetrics, varsTable>>

\* if st.button("Add to Watchlist"): ...
AddToWatchlist ==
    /\ watchlist' = AddStock(watchlist, stock)
    /\ clicked' = clicked \cup {stock}
    /\ UNCHANGED stock
    /\ UNCHANGED <<varsPortfolio, varsFlags, varsMetrics, varsTable>>

NextWatch == SelectStock \/ AddToWatchlist

SpecWatch == InitWatch /\ [][NextWatch]_vars

----------------------------------------------------------------------------
(* Properties of the portfolio advisory *)

\* The handler has run.
Generated == result.status # "none"

\* The rows of the table without a null in a field of the eligibility filter
Eligible == { i \in 1..Len(df) : /\ ~IsNull(df[i].Price) /\ ~IsNull(df[i].ROE)
                                  /\ ~IsNull(df[i].Vol) /\ ~IsNull(df[i].PE) }

Retained == Range(pf)

Min(a, b) == IF a < b THEN a ELSE b

\* C1: whenever portfolio generation produces a result, the total invested
\* is at most the capital and the cash left is not negative.
C1_InvestedWithinCapital ==
    result.status = "ok" =>
        /\ result.total_invested <= capital
        /\ result.cash_left >= 0

\* C2: when build_portfolio retains no row, generation ends in a declared
\* InsufficientDataError and divides by nothing: not by the row count.
C2_EmptyIsInsufficientData ==
    (Generated /\ pf = << >>) =>
        /\ result.status = "InsufficientDataError"
        /\ result.at # "capital / len(pf)"
        /\ result.entries = << >>

\* C3: a retained row with a price <= 0 is excluded before sizing and is no
\* divisor: generation raises no division error on a price, and every entry
\* has a price > 0, shares = floor(allocation / price) >= 0 and an invested
\* amount of shares * price, at most the allocation capital / n.
C3_NonPositivePriceExcluded ==
    Generated =>
        /\ result.at # "allocation / x"
        /\ \A j \in 1..Len(result.entries) :
              LET e == result.entries[j]
              IN  /\ e.Price > 0
                  /\ e.Shares >= 0
                  /\ e.Shares * e.Price * result.n <= capital
                  /\ (e.Shares + 1) * e.Price * result.n > capital
                  /\ e.Invested = e.Shares * e.Price
                  /\ e.Invested * result.n <= capital

\* C4 as stated: for Moderate, of two eligible rows with equal ROE the one
\* with the higher 1Y return ranks first and is retained in preference.
C4_TieBrokenByOneYearReturn ==
    (Generated /\ risk = "Moderate") =>
        \A a \in Eligible, b \in Eligible :
            ( /\ df[a].ROE = df[b].ROE
              /\ ~IsNull(df[a].R1Y) /\ ~IsNull(df[b].R1Y)
              /\ Val(df[a].R1Y) > Val(df[b].R1Y)
              /\ b \in Retained )
            => /\ a \in Retained
               /\ \A i, j \in 1..Len(pf) : (pf[i] = a /\ pf[j] = b) => i < j

\* C4 as amended: for Moderate the retained rows are min(5, eligible) distinct
\* eligible rows in descending ROE order, and no eligible row left out has a
\* strictly higher ROE than a retained one.
C4_TopFiveByRoe ==
    (Generated /\ risk = "Moderate") =>
        /\ Len(pf) = Min(HeadRows, Cardinality(Eligible))
        /\ Cardinality(Retained) = Len(pf)
        /\ Retained \subseteq Eligible
        /\ \A i, j \in 1..Len(pf) : i < j => Val(df[pf[i]].ROE) >= Val(df[pf[j]].ROE)
        /\ \A x \in Eligible \ Retained, y \in Retained :
              Val(df[x].ROE) <= Val(df[y].ROE)

\* Moderate ran on more than five eligible rows, and a row left out ties on
\* ROE with a retained row that has a lower 1Y return.
C4_Witness ==
    /\ Generated /\ risk = "Moderate"
    /\ Cardinality(Eligible) > HeadRows
    /\ \E x \in Eligible \ Retained, y \in Retained :
          /\ df[x].ROE = df[y].ROE
          /\ ~IsNull(df[x].R1Y) /\ ~IsNull(df[y].R1Y)
          /\ Val(df[x].R1Y) > Val(df[y].R1Y)

\* C5: for Low the retained rows are the (up to) five eligible rows of lowest
\* volatility in ascending order: no eligible row left out has a strictly
\* lower volatility than a retained one, and a non-empty eligible set gives a
\* non-empty retained set.
C5_LowestVolatilityFirst ==
    (Generated /\ risk = "Low") =>
        /\ Len(pf) = Min(HeadRows, Cardinality(Eligible))
        /\ Retained \subseteq Eligible
        /\ \A i, j \in 1..Len(pf) : i < j => Val(df[pf[i]].Vol) <= Val(df[pf[j]].Vol)
        /\ \A x \in Eligible \ Retained, y \in Retained :
              Val(df[x].Vol) >= Val(df[y].Vol)
        /\ (Eligible # {} => pf # << >>)

\* C6: no retained row has a null in the field its tier ranks by; for High
\* every retained row has a 3Y CAGR.
C6_NoNullRankingField ==
    Generated =>
        \A i \in Retained :
            /\ ~IsNull(df[i].Price)
            /\ (risk = "Low" => ~IsNull(df[i].Vol))
            /\ (risk = "Moderate" => ~IsNull(df[i].ROE))
            /\ (risk = "High" => ~IsNull(df[i].C3Y))

----------------------------------------------------------------------------
(* Properties of the cash-flow flags *)

\* The three conditions of the flags, on numbers c (CFO) and n (net income);
\* c / n < 0.8 is 10 c n < 8 n n for n # 0.
ConcernHolds(flag, c, n) ==
    IF flag = FlagLower THEN c < n
    ELSE IF flag = FlagWeak THEN n # 0 /\ 10 * c * n < 8 * n * n
    ELSE n > 0 /\ c < 0

\* C7: for a resolved pair the list returned is non-empty and is exactly, in
\* this order, the concern flags whose condition holds, or the single flag
\* "support" if and only if none holds (with a NaN no condition holds).
C7_FlagsMatchConditions ==
    (cf_flags # << >> /\ statements.kind = "resolved") =>
        LET numeric == ~IsNull(statements.cfo) /\ ~IsNull(statements.net)
            concerns == IF numeric
                        THEN SelectSeq(<< FlagLower, FlagWeak, FlagNegative >>,
                                       LAMBDA f : ConcernHolds(f, Val(statements.cfo),
                                                               Val(statements.net)))
                        ELSE << >>
        IN  /\ Len(cf_flags) >= 1
            /\ (concerns # << >> => cf_flags = concerns)
            /\ (concerns = << >> <=> cf_flags = << FlagSupport >>)
            /\ (InSeq(FlagSupport, cf_flags) => Len(cf_flags) = 1)

\* A negative operating cash flow against a positive profit raised all three
\* concern flags.
C7_Witness ==
    /\ statements.kind = "resolved"
    /\ cf_flags = << FlagLower, FlagWeak, FlagNegative >>

----------------------------------------------------------------------------
(* Properties of the metrics engine *)

\* C8: the 1Y return is null for n <= 252 closes and, for n > 252, computed
\* from the last close and the close 252 positions before it, close[n - 252]
\* counting from 1 at close[n]'s position n: for n = 253 the first close.
C8_BaseIs252Back ==
    (metrics.called /\ source.ok) =>
        LET n == Len(source.hist)
        IN  /\ (n <= TradingYear => IsNull(metrics.r1y))
            /\ (n > TradingYear =>
                   /\ ~IsNull(metrics.r1y)
                   /\ Val(metrics.r1y) = ReturnPct(source.hist[n], source.hist[n - TradingYear]))

----------------------------------------------------------------------------
(* Properties of the master table *)

MetricsAllNull(row) ==
    /\ IsNull(row.Price) /\ IsNull(row.PE) /\ IsNull(row.ROE)
    /\ IsNull(row.R1Y) /\ IsNull(row.C3Y) /\ IsNull(row.Vol)

\* The rows built so far: one per instrument in universe order, all metric
\* fields null for an instrument whose data failed, and the instrument's own
\* fundamentals for one whose data did not, whatever happened to the others.
TableRowsRight ==
    /\ table_pc # "aborted"
    /\ Len(rows) <= Len(filtered)
    /\ (table_pc = "done" => Len(rows) = Len(filtered))
    /\ \A k \in 1..Len(rows) :
          LET src == feed[filtered[k].Symbol]
          IN  /\ rows[k].Company = filtered[k].Company
              /\ rows[k].Sector = filtered[k].Sector
              /\ (~src.ok => MetricsAllNull(rows[k]))
              /\ (src.ok => /\ rows[k].Price = src.info.price
                            /\ rows[k].PE = src.info.pe
                            /\ rows[k].ROE = src.info.roe
                            /\ (IsNull(rows[k].Vol) <=> Len(src.hist) < 3))

\* C9: for every universe and every pattern of per-instrument failures the
\* build finishes with exactly one row per instrument in universe order; a
\* failure nulls only that instrument's metric fields, aborts nothing and
\* changes no other row (a row, once appended, stays as it is).
C9_FailuresIsolated ==
    /\ []TableRowsRight
    /\ [][SubSeq(rows', 1, Len(rows)) = rows]_vars
    /\ <>(table_pc = "done")

\* The build ended on three instruments, one failing ahead of one that has
\* its price.
C9_Witness ==
    /\ table_pc = "done"
    /\ Len(rows) = MaxUniverse
    /\ \E j, k \in 1..Len(rows) :
          /\ j < k
          /\ ~feed[filtered[j].Symbol].ok
          /\ feed[filtered[k].Symbol].ok
          /\ ~IsNull(rows[k].Price)

----------------------------------------------------------------------------
(* Properties of the watchlist *)

NoDuplicates(s) == \A i, j \in 1..Len(s) : s[i] = s[j] => i = j

\* C10: the watchlist never holds a company twice and holds every company
\* added; a step only ever appends the selected company at the end (so the
\* entries stay in the order of their first addition and none is lost), and
\* never changes the list when the selected company is already in it.
C10_WatchlistKeepsFirstAdditions ==
    /\ [](NoDuplicates(watchlist) /\ Range(watchlist) = clicked)
    /\ [][ /\ Len(watchlist') >= Len(watchlist)
           /\ SubSeq(watchlist', 1, Len(watchlist)) = watchlist
           /\ (InSeq(stock, watchlist) /\ stock' = stock => watchlist' = watchlist)
           /\ (watchlist' # watchlist => watchlist' = Append(watchlist, stock)) ]_vars

\* Three companies were added out of numeric order and the selected one is
\* already in the list.
C10_Witness ==
    /\ Len(watchlist) >= 3
    /\ watchlist[1] > watchlist[2]
    /\ InSeq(stock, watchlist)
    /\ stock # watchlist[Len(watchlist)]

====
